---- MODULE Spec2Model ----
(***************************************************************************)
(* Model of the risk-table pipeline of the repository:                     *)
(*   ml_prep.py                 process_year  (records -> risk table)      *)
(*   recommendation_engine.py   load_and_train, get_recommendations        *)
(*   reports/figures/error_analysis.py   analyze_errors                    *)
(*   train_model.py             train_and_evaluate                         *)
(* Each script is a separate program run; `prog' names the script that a   *)
(* behaviour executes.                                                     *)
(***************************************************************************)
EXTENDS Integers, Sequences, FiniteSets, TLC

(***************************************************************************)
(* Bounds of the model.                                                    *)
(***************************************************************************)
MaxRecords == 2      \* incident records of an input file of ml_prep
MaxCells == 11       \* grid cells covered by the training window of the ranker
MaxFree == 1         \* further records of a training / evaluation window
SmallCells == 2      \* grid cells covered by a window that has further records

(***************************************************************************)
(* Value domains.                                                          *)
(***************************************************************************)
NaN == "NaN"                     \* missing Time_Period / missing label
NaT == -1                        \* missing IncidentDate
NaNDay == -1                     \* Day_Num of a missing date
NaNCode == -1                    \* Time_Code of a label the mapping lacks
NoneVal == -2                    \* Python None returned by dict.get

\* Labels in lexicographic order, the order groupby sorts string keys in.
LabelOrder == <<"Evening", "Late_Night", "Morning">>
LabelRank(l) == CHOOSE i \in 1..Len(LabelOrder) : LabelOrder[i] = l

\* Dates as days since 1970-01-01: Mon 2023-01-02, Sat 2023-01-07, Mon 2023-01-09.
Dates == {19359, 19364, 19366}

\* pandas Series.dt.dayofweek: Monday = 0 .. Sunday = 6; NaT gives NaN.
dayofweekSundayFirst(d) == IF d = NaT THEN NaNDay ELSE (d + 4) % 7

dayofweek(d) == IF d = NaT THEN NaNDay ELSE (d + 3) % 7

\* Points lie on a line; at the fixed resolution a cell covers PointsPerCell
\* consecutive points (the grid assignment is many-to-one).
PointsPerCell == 2
geo_to_h3(xy) == (xy \div PointsPerCell) + 1
\* h3_to_geo: the centroid of a cell, a pure injective function of the id.
CentroidLat(c) == c \div 2
CentroidLon(c) == c % 2

Min(a, b) == IF a < b THEN a ELSE b
Range(s) == {s[i] : i \in 1..Len(s)}

(***************************************************************************)
(* ml_prep.process_year                                                    *)
(***************************************************************************)
\* Group key of a row after the grid assignment and the Day_Num column.
KeyOf(r) == <<geo_to_h3(r.xy), dayofweek(r.IncidentDate), r.Time_Period>>

\* groupby drops the rows that have a missing value in a key column.
KeyValid(k) == k[2] # NaNDay /\ k[3] # NaN

KeyLess(a, b) ==
    \/ a[1] < b[1]
    \/ a[1] = b[1] /\ a[2] < b[2]
    \/ a[1] = b[1] /\ a[2] = b[2] /\ LabelRank(a[3]) < LabelRank(b[3])

RECURSIVE SortKeys(_)
SortKeys(S) ==
    IF S = {} THEN <<>>
    ELSE LET m == CHOOSE k \in S : \A o \in S \ {k} : KeyLess(k, o)
         IN  <<m>> \o SortKeys(S \ {m})

\* groupby([...], observed=True).size(): one row per realised key, in sorted
\* key order, with the number of records of the group.
GroupSizeNoGroup(rows) ==
    LET valid == SelectSeq(rows, LAMBDA r : KeyValid(KeyOf(r)))
    IN  [i \in 1..Len(valid) |->
            [h3_polyfill |-> KeyOf(valid[i])[1], Day_Num |-> KeyOf(valid[i])[2],
             Time_Period |-> KeyOf(valid[i])[3], Incident_Count |-> 1]]

GroupSizeByCellDay(rows) ==
    LET keys == SortKeys({KeyOf(rows[i]) : i \in {j \in 1..Len(rows) : KeyValid(KeyOf(rows[j]))}})
    IN  [i \in 1..Len(keys) |->
            [h3_polyfill |-> keys[i][1], Day_Num |-> keys[i][2],
             Time_Period |-> keys[i][3],
             Incident_Count |-> Cardinality({j \in 1..Len(rows) :
                                   /\ KeyOf(rows[j])[1] = keys[i][1]
                                   /\ KeyOf(rows[j])[2] = keys[i][2]})]]

\* With observed=False every declared label would get a row for every realised
\* (cell, day) pair.
GroupSizeUnobserved(rows) ==
    LET seen == {KeyOf(rows[i]) : i \in {j \in 1..Len(rows) : KeyValid(KeyOf(rows[j]))}}
        keys == SortKeys({<<k[1], k[2], l>> : k \in seen, l \in Range(LabelOrder)})
    IN  [i \in 1..Len(keys) |->
            [h3_polyfill |-> keys[i][1], Day_Num |-> keys[i][2],
             Time_Period |-> keys[i][3],
             Incident_Count |-> Cardinality({j \in 1..Len(rows) : KeyOf(rows[j]) = keys[i]})]]

GroupSize(rows) ==
    LET keys == SortKeys({KeyOf(rows[i]) : i \in {j \in 1..Len(rows) : KeyValid(KeyOf(rows[j]))}})
    IN  [i \in 1..Len(keys) |->
            [h3_polyfill |-> keys[i][1], Day_Num |-> keys[i][2],
             Time_Period |-> keys[i][3],
             Incident_Count |-> Cardinality({j \in 1..Len(rows) : KeyOf(rows[j]) = keys[i]})]]

\* Steps 5A-5E: the centroid columns, derived from the cell id of each row.
AddCentroids(g) ==
    [i \in 1..Len(g) |->
        [h3_polyfill |-> g[i].h3_polyfill, Day_Num |-> g[i].Day_Num,
         Time_Period |-> g[i].Time_Period, Incident_Count |-> g[i].Incident_Count,
         Latitude |-> CentroidLat(g[i].h3_polyfill),
         Longitude |-> CentroidLon(g[i].h3_polyfill)]]

\* GeoDataFrame.to_crs(epsg=4326): projected coordinates back to degrees.
MercScale == 2
to_crs(crs, rows) ==
    [i \in 1..Len(rows) |->
        [xy |-> IF crs = "EPSG:3857" THEN rows[i].xy \div MercScale ELSE rows[i].xy,
         IncidentDate |-> rows[i].IncidentDate, Time_Period |-> rows[i].Time_Period]]

\* Step 2, "Check/Set CRS": a missing CRS is warned about and set to
\* EPSG:4326, any other CRS is reprojected.
check_crsNoReproject(file) ==
    IF file.crs = "None"
    THEN [crs |-> "EPSG:4326", rows |-> file.rows, warned |-> TRUE]
    ELSE [crs |-> file.crs, rows |-> file.rows, warned |-> FALSE]

check_crs(file) ==
    IF file.crs = "None"
    THEN [crs |-> "EPSG:4326", rows |-> file.rows, warned |-> TRUE]
    ELSE IF file.crs # "EPSG:4326"
    THEN [crs |-> "EPSG:4326", rows |-> to_crs(file.crs, file.rows), warned |-> FALSE]
    ELSE [crs |-> file.crs, rows |-> file.rows, warned |-> FALSE]

\* The whole of process_year: what it returns for an input file (ret), the
\* error message it prints (msg), whether the grid assignment was run
\* (indexed) and the frame it was run on (crs, source).
\*   - a file that is missing or cannot be read: message, return None;
\*   - geometry for which geo_to_h3 raises: the exception is caught at
\*     lines 45-47, message, return None;
\*   - no IncidentDate column: gdf_hex['IncidentDate'] at line 66 raises a
\*     KeyError that nothing catches.
process_year(file) ==
    IF file.status = "missing"
    THEN [ret |-> "None", msg |-> "Skipping (Not Found)", indexed |-> FALSE, warned |-> FALSE,
          crs |-> "undetermined", source |-> <<>>, table |-> <<>>]
    ELSE IF file.status = "unreadable"
    THEN [ret |-> "None", msg |-> "Error reading file", indexed |-> FALSE, warned |-> FALSE,
          crs |-> "undetermined", source |-> <<>>, table |-> <<>>]
    ELSE LET gdf == check_crs(file)
         IN  IF file.geometry # "points"
             THEN [ret |-> "None", msg |-> "Error during hex grid generation",
                   indexed |-> TRUE, warned |-> gdf.warned, crs |-> gdf.crs,
                   source |-> gdf.rows, table |-> <<>>]
             ELSE IF ~file.date_col
             THEN [ret |-> "KeyError", msg |-> "", indexed |-> TRUE, warned |-> gdf.warned,
                   crs |-> gdf.crs, source |-> gdf.rows, table |-> <<>>]
             ELSE [ret |-> "table", msg |-> "", indexed |-> TRUE, warned |-> gdf.warned,
                   crs |-> gdf.crs, source |-> gdf.rows,
                   table |-> AddCentroids(GroupSize(gdf.rows))]

(***************************************************************************)
(* Encoding of the time-period labels (all three training scripts).        *)
(***************************************************************************)
Column(df, name) == [i \in 1..Len(df) |-> df[i][name]]

\* Series.unique(): the distinct values in order of first appearance.
uniqueNoDedup(col) == col

unique(col) ==
    LET first == {i \in 1..Len(col) : \A j \in 1..(i - 1) : col[j] # col[i]}
        RECURSIVE pick(_)
        pick(I) == IF I = {} THEN <<>>
                   ELSE LET m == CHOOSE i \in I : \A j \in I : i <= j
                        IN  <<col[m]>> \o pick(I \ {m})
    IN  pick(first)

\* {label: idx for idx, label in enumerate(seq)}: a later index overrides.
dict_enumerate(seq) ==
    [l \in Range(seq) |->
        (CHOOSE i \in 1..Len(seq) : seq[i] = l /\ \A j \in (i + 1)..Len(seq) : seq[j] # l) - 1]

time_mapping_of(df) == dict_enumerate(unique(Column(df, "Time_Period")))

\* dict.get(key): the value, or None for a key the dict lacks.
dict_getDefaultZero(d, k) == IF k \in DOMAIN d THEN d[k] ELSE 0

dict_get(d, k) == IF k \in DOMAIN d THEN d[k] ELSE NoneVal

\* Series.map(dict): the value, or NaN for a label the dict lacks.
map_codeByRank(d, l) == IF l \in DOMAIN d THEN LabelRank(l) - 1 ELSE NaNCode

map_code(d, l) == IF l \in DOMAIN d THEN d[l] ELSE NaNCode

\* df['Time_Code'] = df['Time_Period'].map(time_mapping)
with_time_code(df, mapping) ==
    [i \in 1..Len(df) |->
        [h3_polyfill |-> df[i].h3_polyfill, Day_Num |-> df[i].Day_Num,
         Time_Period |-> df[i].Time_Period, Incident_Count |-> df[i].Incident_Count,
         Latitude |-> df[i].Latitude, Longitude |-> df[i].Longitude,
         Time_Code |-> map_code(mapping, df[i].Time_Period)]]

\* The inverse of the mapping: the label a code stands for.
decode(mapping, code) == CHOOSE l \in DOMAIN mapping : mapping[l] = code

(***************************************************************************)
(* The regression model.  RandomForestRegressor is a library: a fitted     *)
(* model is a deterministic function of the four features, here one of a   *)
(* bounded family of functions (integer valued, ties between cells         *)
(* included).                                                              *)
(***************************************************************************)
Models == {[bias |-> 0, w_lat |-> 2, w_lon |-> 1], [bias |-> 0, w_lat |-> 1, w_lon |-> 0],
           [bias |-> -6, w_lat |-> -2, w_lon |-> -1]}
NoModel == [bias |-> 0, w_lat |-> 0, w_lon |-> 0]

predict(m, lat, lon, day, tc) == m.bias + m.w_lat * lat + m.w_lon * lon + day + tc

(***************************************************************************)
(* recommendation_engine.get_recommendations                               *)
(***************************************************************************)
days == [d \in {"Monday", "Tuesday", "Wednesday", "Thursday", "Friday", "Saturday", "Sunday"} |->
            CASE d = "Monday" -> 0 [] d = "Tuesday" -> 1 [] d = "Wednesday" -> 2
              [] d = "Thursday" -> 3 [] d = "Friday" -> 4 [] d = "Saturday" -> 5
              [] d = "Sunday" -> 6]

\* df_ref[['h3_polyfill', 'Latitude', 'Longitude']].drop_duplicates():
\* a new frame with the first row of every distinct location.
drop_duplicates(df) ==
    LET sel == [i \in 1..Len(df) |->
                   [h3_polyfill |-> df[i].h3_polyfill, Latitude |-> df[i].Latitude,
                    Longitude |-> df[i].Longitude]]
        first == {i \in 1..Len(sel) : \A j \in 1..(i - 1) : sel[j] # sel[i]}
        RECURSIVE pick(_)
        pick(I) == IF I = {} THEN <<>>
                   ELSE LET m == CHOOSE i \in I : \A j \in I : i <= j
                        IN  <<sel[m]>> \o pick(I \ {m})
    IN  pick(first)

\* Steps 1-3: the query rows with their predictions.
score(model, locs, day_num, time_code) ==
    [i \in 1..Len(locs) |->
        [h3_polyfill |-> locs[i].h3_polyfill, Latitude |-> locs[i].Latitude,
         Longitude |-> locs[i].Longitude, Day_Num |-> day_num, Time_Code |-> time_code,
         Predicted_Risk |-> predict(model, locs[i].Latitude, locs[i].Longitude,
                                    day_num, time_code)]]

\* The two frames after steps 1-3: the reference table and the query frame.
\* The selection and drop_duplicates make a new frame, so the column
\* assignments of steps 2-3 go to that frame and not to df_ref.
query_framesInPlace(model, df_ref, day_num, time_code) ==
    [ref  |-> [i \in 1..Len(df_ref) |->
                  [h3_polyfill |-> df_ref[i].h3_polyfill, Day_Num |-> day_num,
                   Time_Period |-> df_ref[i].Time_Period,
                   Incident_Count |-> df_ref[i].Incident_Count,
                   Latitude |-> df_ref[i].Latitude, Longitude |-> df_ref[i].Longitude,
                   Time_Code |-> time_code]],
     locs |-> score(model, drop_duplicates(df_ref), day_num, time_code)]

query_frames(model, df_ref, day_num, time_code) ==
    [ref  |-> df_ref,
     locs |-> score(model, drop_duplicates(df_ref), day_num, time_code)]

\* sort_values('Predicted_Risk', ascending=False) with the default
\* kind='quicksort', which is not a stable sort: every ordering of the rows
\* that is descending by risk is a possible outcome.
RECURSIVE desc_orders(_, _)
desc_orders(df, I) ==
    IF I = {} THEN {<<>>}
    ELSE UNION {{<<df[m]>> \o t : t \in desc_orders(df, I \ {m})} :
                   m \in {i \in I : \A j \in I : df[i].Predicted_Risk >= df[j].Predicted_Risk}}

sort_values(df) == desc_orders(df, 1..Len(df))

\* DataFrame.head(n)
headShort(df, n) == SubSeq(df, 1, Min(n - 1, Len(df)))

head(df, n) == SubSeq(df, 1, Min(n, Len(df)))

TopN == 10

NoResult == [status |-> "none", day_name |-> "", time_period |-> "",
             day_num |-> NoneVal, time_code |-> NoneVal, all |-> <<>>, top |-> <<>>]

(***************************************************************************)
(* error_analysis.analyze_errors and train_model.train_and_evaluate        *)
(***************************************************************************)
\* model.predict over the evaluation rows.  nan_route is the code a tree
\* routes a missing Time_Code as, in a library build that accepts NaN.
predict_rows(m, df, nan_route) ==
    [i \in 1..Len(df) |->
        predict(m, df[i].Latitude, df[i].Longitude, df[i].Day_Num,
                IF df[i].Time_Code = NaNCode THEN nan_route ELSE df[i].Time_Code)]

RECURSIVE SumOver(_, _)
SumOver(f, I) ==
    IF I = {} THEN 0
    ELSE LET i == CHOOSE x \in I : TRUE IN f[i] + SumOver(f, I \ {i})

\* test_df['Error'] = test_df[target] - test_df['Predicted']
errorsReversed(df, predicted) == [i \in 1..Len(df) |-> predicted[i] - df[i].Incident_Count]

errors(df, predicted) == [i \in 1..Len(df) |-> df[i].Incident_Count - predicted[i]]

LocLess(a, b) == a[1] < b[1] \/ (a[1] = b[1] /\ a[2] < b[2])

RECURSIVE SortLocs(_)
SortLocs(S) ==
    IF S = {} THEN <<>>
    ELSE LET m == CHOOSE k \in S : \A o \in S \ {k} : LocLess(k, o)
         IN  <<m>> \o SortLocs(S \ {m})

\* groupby(['Latitude', 'Longitude'])['Error'].mean().reset_index(); a mean
\* is kept exact, as the sum of the group over its size.
location_means(df, err) ==
    LET locs == SortLocs({<<df[i].Latitude, df[i].Longitude>> : i \in 1..Len(df)})
    IN  [k \in 1..Len(locs) |->
            LET grp == {i \in 1..Len(df) :
                           df[i].Latitude = locs[k][1] /\ df[i].Longitude = locs[k][2]}
            IN  [Latitude |-> locs[k][1], Longitude |-> locs[k][2],
                 Error |-> [num |-> SumOver(err, grp), den |-> Cardinality(grp)]]]

Abs(x) == IF x < 0 THEN -x ELSE x

\* mean_absolute_error(y_test, predictions), exact.
mean_absolute_error(df, predicted) ==
    [num |-> SumOver([i \in 1..Len(df) |-> Abs(df[i].Incident_Count - predicted[i])],
                     1..Len(df)),
     den |-> Len(df)]

NoEval == [status |-> "none", mapping |-> <<>>, model |-> NoModel, test |-> <<>>,
           predicted |-> <<>>, Error |-> <<>>, location_errors |-> <<>>,
           mae |-> [num |-> 0, den |-> 0]]

(***************************************************************************)
(* Inputs.                                                                 *)
(***************************************************************************)
SeqsUpTo(S, n) == UNION {[1..k -> S] : k \in 0..n}

\* Rows of an input file of ml_prep: a point, a date or NaT, a label or NaN.
BuildRows == [xy : {0, 1, 4}, IncidentDate : Dates \cup {NaT},
              Time_Period : {"Late_Night", "Morning", NaN}]

\* Input files: missing or unreadable ones, well-formed ones of up to
\* MaxRecords rows, and single-row ones that lack the IncidentDate column or
\* have geometry the grid assignment cannot resolve.
InputFiles ==
    {[status |-> st, crs |-> "None", geometry |-> "points", date_col |-> TRUE, rows |-> <<>>] :
        st \in {"missing", "unreadable"}}
    \cup [status : {"ok"}, crs : {"None", "EPSG:4326", "EPSG:3857"}, geometry : {"points"},
          date_col : {TRUE}, rows : SeqsUpTo(BuildRows, MaxRecords)]
    \cup {f \in [status : {"ok"}, crs : {"None", "EPSG:4326", "EPSG:3857"},
                  geometry : {"points", "unresolvable"}, date_col : BOOLEAN,
                  rows : {<<r>> : r \in BuildRows}] :
             f.geometry # "points" \/ ~f.date_col}

\* A window with one Saturday Late_Night incident in each of the cells 1..n.
Fill(n) == [c \in 1..n |-> [xy |-> (c - 1) * PointsPerCell, IncidentDate |-> 19364,
                            Time_Period |-> "Late_Night"]]

TrainRows == [xy : {0, 2}, IncidentDate : {19359, 19364}, Time_Period : {"Late_Night", "Morning"}]
TestRows == [xy : {0, 2}, IncidentDate : {19359}, Time_Period : {"Evening", "Late_Night"}]

\* The risk table ml_prep saves for a window of records.
RiskTable(rows) ==
    process_year([status |-> "ok", crs |-> "EPSG:4326", geometry |-> "points",
                  date_col |-> TRUE, rows |-> rows]).table

\* Training windows: small ones with further records in the cells 1 and 2,
\* and larger ones with one incident in each cell.
TrainTables(cells) == {RiskTable(f \o Fill(n)) : f \in SeqsUpTo(TrainRows, MaxFree), n \in cells}
WideTables == {RiskTable(Fill(n)) : n \in 1..MaxCells}
TestTables == {RiskTable(f \o Fill(n)) : f \in SeqsUpTo(TestRows, MaxFree), n \in 1..SmallCells}

DayNames == {"Monday", "Saturday", "Funday"}
QueryLabels == {"Evening", "Late_Night", "Morning"}

(***************************************************************************)
(* State.                                                                  *)
(***************************************************************************)
VARIABLES
    prog,          \* the script this run executes
    input,         \* ml_prep: the input file
    built,         \* ml_prep: what process_year returned
    train_csv,     \* data/ml_ready/train_2023.csv
    test_csv,      \* data/ml_ready/test_2024.csv
    trained,       \* recommendation_engine: load_and_train has returned
    model,         \* recommendation_engine: the fitted model
    time_mapping,  \* recommendation_engine: the label -> code dict
    df_ref,        \* recommendation_engine: the reference table
    rec,           \* recommendation_engine: the last query and what it returned
    ev             \* error_analysis / train_model: the outcome

vars == <<prog, input, built, train_csv, test_csv, trained, model, time_mapping, df_ref, rec, ev>>

NoFile == [status |-> "missing", crs |-> "None", geometry |-> "points", date_col |-> TRUE,
           rows |-> <<>>]
NotBuilt == [ret |-> "pending", msg |-> "", indexed |-> FALSE, warned |-> FALSE, crs |-> "undetermined",
             source |-> <<>>, table |-> <<>>]

InitBuild ==
    /\ prog = "ml_prep"
    /\ input \in InputFiles
    /\ built = NotBuilt
    /\ train_csv = <<>> /\ test_csv = <<>>
    /\ trained = FALSE /\ model = NoModel /\ time_mapping = <<>> /\ df_ref = <<>>
    /\ rec = NoResult /\ ev = NoEval

InitRank ==
    /\ prog = "recommendation_engine"
    /\ input = NoFile /\ built = NotBuilt
    /\ train_csv \in TrainTables(1..SmallCells) \cup WideTables
    /\ test_csv = <<>>
    /\ trained = FALSE /\ model = NoModel /\ time_mapping = <<>> /\ df_ref = <<>>
    /\ rec = NoResult /\ ev = NoEval

\* An empty table stands for a CSV file that ml_prep did not write.
InitEval ==
    /\ prog \in {"error_analysis", "train_model"}
    /\ input = NoFile /\ built = NotBuilt
    /\ \/ train_csv \in TrainTables({1}) /\ test_csv \in TestTables
       \/ train_csv = <<>> /\ test_csv = <<>>
    /\ trained = FALSE /\ model = NoModel /\ time_mapping = <<>> /\ df_ref = <<>>
    /\ rec = NoResult /\ ev = NoEval

Init == InitBuild \/ InitRank \/ InitEval

(***************************************************************************)
(* Actions.                                                                *)
(***************************************************************************)
\* ml_prep: process_year on the input file.
ProcessYear ==
    /\ prog = "ml_prep"
    /\ built.ret = "pending"
    /\ built' = process_year(input)
    /\ UNCHANGED <<prog, input, train_csv, test_csv, trained, model, time_mapping, df_ref, rec, ev>>

\* recommendation_engine.load_and_train
LoadAndTrain ==
    /\ prog = "recommendation_engine"
    /\ ~trained
    /\ \E m \in Models :
          LET mapping == time_mapping_of(train_csv)
          IN  /\ model' = m
              /\ time_mapping' = mapping
              /\ df_ref' = with_time_code(train_csv, mapping)
    /\ trained' = TRUE
    /\ UNCHANGED <<prog, input, built, train_csv, test_csv, rec, ev>>

\* recommendation_engine.get_recommendations(model, time_mapping, df_ref, day_name, time_period)
GetRecommendations(day_name, time_period) ==
    /\ prog = "recommendation_engine"
    /\ trained
    /\ LET day_num == dict_get(days, day_name)
           time_code == dict_get(time_mapping, time_period)
       IN  IF day_num = NoneVal \/ time_code = NoneVal
           THEN /\ rec' = [status |-> "invalid", day_name |-> day_name,
                           time_period |-> time_period, day_num |-> day_num,
                           time_code |-> time_code, all |-> <<>>, top |-> <<>>]
                /\ UNCHANGED df_ref
           ELSE LET frames == query_frames(model, df_ref, day_num, time_code)
                IN  /\ \E sorted \in sort_values(frames.locs) :
                          rec' = [status |-> "ok", day_name |-> day_name,
                                  time_period |-> time_period, day_num |-> day_num,
                                  time_code |-> time_code, all |-> frames.locs,
                                  top |-> head(sorted, TopN)]
                    /\ df_ref' = frames.ref
    /\ UNCHANGED <<prog, input, built, train_csv, test_csv, trained, model, time_mapping, ev>>

\* The encoding, fit and prediction steps shared by analyze_errors and
\* train_and_evaluate.  A library build that rejects NaN features raises a
\* ValueError in predict; one that accepts them predicts every row.
Evaluated(m, nan_ok, nan_route) ==
    LET mapping == time_mapping_of(train_csv)
        test    == with_time_code(test_csv, mapping)
        has_nan == \E i \in 1..Len(test) : test[i].Time_Code = NaNCode
    IN  IF has_nan /\ ~nan_ok
        THEN [status |-> "ValueError", mapping |-> mapping, model |-> m, test |-> test,
              predicted |-> <<>>, Error |-> <<>>, location_errors |-> <<>>,
              mae |-> [num |-> 0, den |-> 0]]
        ELSE [status |-> "done", mapping |-> mapping, model |-> m, test |-> test,
              predicted |-> predict_rows(m, test, nan_route),
              Error |-> <<>>, location_errors |-> <<>>, mae |-> [num |-> 0, den |-> 0]]

\* error_analysis.analyze_errors
AnalyzeErrors ==
    /\ prog = "error_analysis"
    /\ ev.status = "none"
    /\ train_csv # <<>> /\ test_csv # <<>>
    /\ \E m \in Models, nan_ok \in BOOLEAN, nan_route \in Range(unique(Column(train_csv, "Time_Period"))) :
          LET e == Evaluated(m, nan_ok, time_mapping_of(train_csv)[nan_route])
          IN  IF e.status # "done" THEN ev' = e
              ELSE LET err == errors(e.test, e.predicted)
                   IN  ev' = [e EXCEPT !.Error = err,
                                       !.location_errors = location_means(e.test, err)]
    /\ UNCHANGED <<prog, input, built, train_csv, test_csv, trained, model, time_mapping, df_ref, rec>>

\* train_model.train_and_evaluate
TrainAndEvaluate ==
    /\ prog = "train_model"
    /\ ev.status = "none"
    /\ train_csv # <<>> /\ test_csv # <<>>
    /\ \E m \in Models, nan_ok \in BOOLEAN, nan_route \in Range(unique(Column(train_csv, "Time_Period"))) :
          LET e == Evaluated(m, nan_ok, time_mapping_of(train_csv)[nan_route])
          IN  IF e.status # "done" THEN ev' = e
              ELSE ev' = [e EXCEPT !.mae = mean_absolute_error(e.test, e.predicted)]
    /\ UNCHANGED <<prog, input, built, train_csv, test_csv, trained, model, time_mapping, df_ref, rec>>

\* Both scripts return at once when a CSV file is missing.
DataMissing ==
    /\ prog \in {"error_analysis", "train_model"}
    /\ ev.status = "none"
    /\ train_csv = <<>> \/ test_csv = <<>>
    /\ ev' = [NoEval EXCEPT !.status = "data_missing"]
    /\ UNCHANGED <<prog, input, built, train_csv, test_csv, trained, model, time_mapping, df_ref, rec>>

Query == \E day_name \in DayNames, time_period \in QueryLabels :
            GetRecommendations(day_name, time_period)

Next == ProcessYear \/ LoadAndTrain \/ Query \/ AnalyzeErrors \/ TrainAndEvaluate \/ DataMissing

Spec == Init /\ [][Next]_vars

(***************************************************************************)
(* Properties.                                                             *)
(***************************************************************************)
RowKey(r) == <<r.h3_polyfill, r.Day_Num, r.Time_Period>>

\* C1: no two rows of a risk table returned by process_year share the key
\* (h3_polyfill, Day_Num, Time_Period).
C1_UniqueKeys ==
    built.ret = "table" =>
        \A i, j \in 1..Len(built.table) :
            i # j => RowKey(built.table[i]) # RowKey(built.table[j])

\* C1 witness: a table whose two rows agree on the cell and the day and
\* differ only in the label.
C1_Witness ==
    /\ built.ret = "table"
    /\ Len(built.table) = 2
    /\ built.table[1].h3_polyfill = built.table[2].h3_polyfill
    /\ built.table[1].Day_Num = built.table[2].Day_Num

\* C2: Incident_Count of every row is a natural number equal to the number of
\* input records that were assigned the row's cell, day-of-week and label.
C2_CountIsGroupSize ==
    built.ret = "table" =>
        /\ Len(built.source) = Len(input.rows)
        /\ \A i \in 1..Len(built.table) :
              LET row == built.table[i]
              IN  /\ row.Incident_Count \in Nat
                  /\ row.Incident_Count =
                       Cardinality({j \in 1..Len(built.source) :
                           /\ geo_to_h3(built.source[j].xy) = row.h3_polyfill
                           /\ input.rows[j].IncidentDate # NaT
                           /\ (input.rows[j].IncidentDate + 3) % 7 = row.Day_Num
                           /\ input.rows[j].Time_Period = row.Time_Period})

\* C2 witness: one row counting two records of different points and dates.
C2_Witness ==
    /\ built.ret = "table"
    /\ Len(built.table) = 1
    /\ built.table[1].Incident_Count = 2
    /\ input.rows[1].xy # input.rows[2].xy
    /\ input.rows[1].IncidentDate # input.rows[2].IncidentDate

\* C3: a query whose day name is not in the day-name table or whose label is
\* not in the trained mapping ends invalid: no prediction is made (with a
\* defaulted code or otherwise), nothing is returned, and the model, the
\* mapping and the reference table stay as they were.
C3_InvalidQueryFails ==
    [][(/\ trained
        /\ rec' # rec
        /\ (rec'.day_name \notin DOMAIN days \/ rec'.time_period \notin DOMAIN time_mapping))
       => /\ rec'.status = "invalid"
          /\ rec'.all = <<>> /\ rec'.top = <<>>
          /\ model' = model /\ time_mapping' = time_mapping /\ df_ref' = df_ref]_vars

\* C3 witness: a Monday query (day 0) with a label the mapping lacks was refused.
C3_Witness ==
    /\ rec.status = "invalid"
    /\ rec.day_name = "Monday"
    /\ rec.time_period \notin DOMAIN time_mapping

\* C4 (as claimed): when the evaluation table has a label the training mapping
\* lacks, analyze fails and computes no prediction or residual.
C4_UnseenLabelFails ==
    (/\ prog = "error_analysis"
     /\ ev.status # "none"
     /\ \E i \in 1..Len(test_csv) : test_csv[i].Time_Period \notin DOMAIN ev.mapping)
    => /\ ev.status # "done"
       /\ ev.predicted = <<>> /\ ev.Error = <<>> /\ ev.location_errors = <<>>

\* What a stable descending sort would return: ties in input order.
RECURSIVE stable_desc(_, _)
stable_desc(df, I) ==
    IF I = {} THEN <<>>
    ELSE LET m == CHOOSE i \in I : \A j \in I :
                      \/ df[i].Predicted_Risk > df[j].Predicted_Risk
                      \/ df[i].Predicted_Risk = df[j].Predicted_Risk /\ i <= j
         IN  <<df[m]>> \o stable_desc(df, I \ {m})

\* C5 (as claimed): the top list of a successful query is descending by risk
\* with ties in the order of the known cells (a stable sort).
C5_StableDescending ==
    rec.status = "ok" => rec.top = head(stable_desc(rec.all, 1..Len(rec.all)), TopN)

\* Requested sizes of the top list, for C6 as claimed.
RequestedTopK == {1, 3, 10}

C7_SameMapping ==
    /\ [](trained =>
            /\ \A i \in 1..Len(df_ref) :
                  /\ df_ref[i].Time_Period \in DOMAIN time_mapping
                  /\ df_ref[i].Time_Code = time_mapping[df_ref[i].Time_Period]
            /\ rec.status = "ok" =>
                  /\ \E i \in 1..Len(df_ref) : df_ref[i].Time_Period = rec.time_period
                  /\ \A i \in 1..Len(df_ref) :
                        df_ref[i].Time_Period = rec.time_period
                            => df_ref[i].Time_Code = rec.time_code)
    /\ [](ev.status # "none" =>
            \A i \in 1..Len(ev.test), j \in 1..Len(train_csv) :
                ev.test[i].Time_Period = train_csv[j].Time_Period
                    => /\ ev.test[i].Time_Period \in DOMAIN ev.mapping
                       /\ ev.test[i].Time_Code = ev.mapping[train_csv[j].Time_Period])
    /\ [][trained => time_mapping' = time_mapping]_vars
    /\ [][ev.status # "none" => ev'.mapping = ev.mapping]_vars

\* C7 witness: a query encoded a label whose code is not 0.
C7_Witness ==
    /\ rec.status = "ok"
    /\ rec.time_code = 1
    /\ rec.time_period = "Late_Night"

\* A mapping is a bijection between the labels of a table and 0..n-1 that
\* decodes every code back to its label.
IsLabelBijection(mapping, df) ==
    LET observed == {df[i].Time_Period : i \in 1..Len(df)}
    IN  /\ DOMAIN mapping = observed
        /\ {mapping[l] : l \in observed} = 0..(Cardinality(observed) - 1)
        /\ \A a, b \in observed : a # b => mapping[a] # mapping[b]
        /\ \A l \in observed : decode(mapping, mapping[l]) = l

\* C8: the mapping built from a training table is a bijection between the
\* labels observed in the table and the codes 0..n-1, with encode-then-decode
\* the identity.
C8_Bijection ==
    /\ trained => IsLabelBijection(time_mapping, train_csv)
    /\ ev.status # "none" => IsLabelBijection(ev.mapping, train_csv)

\* C8 witness: two labels, the first seen one not the first alphabetically.
C8_Witness ==
    /\ trained
    /\ DOMAIN time_mapping = {"Late_Night", "Morning"}
    /\ time_mapping["Morning"] = 0

\* C9: analyze yields exactly one residual record per distinct location of
\* the evaluation table; its value is the mean of actual minus predicted over
\* all rows of the location, positive when every actual count exceeds its
\* prediction and negative when every one is below.
C9_MeanResidual ==
    (prog = "error_analysis" /\ ev.status = "done") =>
        LET rows == 1..Len(test_csv)
            locs == {<<test_csv[i].Latitude, test_csv[i].Longitude>> : i \in rows}
            out  == ev.location_errors
        IN  /\ Len(out) = Cardinality(locs)
            /\ {<<out[k].Latitude, out[k].Longitude>> : k \in 1..Len(out)} = locs
            /\ \A k \in 1..Len(out) :
                  LET grp  == {i \in rows : /\ test_csv[i].Latitude = out[k].Latitude
                                            /\ test_csv[i].Longitude = out[k].Longitude}
                      diff == [i \in rows |-> test_csv[i].Incident_Count - ev.predicted[i]]
                  IN  /\ out[k].Error.den = Cardinality(grp)
                      /\ out[k].Error.num = SumOver(diff, grp)
                      /\ (\A i \in grp : test_csv[i].Incident_Count > ev.predicted[i])
                            => out[k].Error.num > 0
                      /\ (\A i \in grp : test_csv[i].Incident_Count < ev.predicted[i])
                            => out[k].Error.num < 0

\* C9 witness: a location of two rows (different day and period) that is
\* under-predicted, next to another location.
C9_Witness ==
    /\ prog = "error_analysis" /\ ev.status = "done"
    /\ Len(ev.location_errors) = 2
    /\ \E k \in 1..2 : ev.location_errors[k].Error.den = 2 /\ ev.location_errors[k].Error.num > 0

\* C10: a successful query leaves the model, the mapping and the reference
\* table (rows and columns) exactly as they were.
C10_QueryHasNoSideEffect ==
    [][(trained /\ rec'.status = "ok" /\ (rec' # rec \/ df_ref' # df_ref))
       => model' = model /\ time_mapping' = time_mapping /\ df_ref' = df_ref]_vars

\* C10 witness: a successful query over a reference table that has several
\* rows per cell, for a day and a code other than those of some training row.
C10_Witness ==
    /\ rec.status = "ok"
    /\ Len(df_ref) > Len(rec.all)
    /\ \E i \in 1..Len(df_ref) : df_ref[i].Day_Num # rec.day_num /\ df_ref[i].Time_Code # rec.time_code

\* C11: the grid is assigned only to a frame in EPSG:4326: a file without a
\* CRS is warned about and taken as EPSG:4326 with its coordinates as they
\* are, a file in another CRS is reprojected first, and every returned table
\* went through the grid assignment.
C11_GridOnlyInEPSG4326 ==
    /\ built.ret = "table" => built.indexed
    /\ built.indexed =>
          /\ built.crs = "EPSG:4326"
          /\ Len(built.source) = Len(input.rows)
          /\ input.crs = "None" => built.warned /\ built.source = input.rows
          /\ input.crs = "EPSG:4326" => ~built.warned /\ built.source = input.rows
          /\ input.crs \notin {"None", "EPSG:4326"} =>
                \A j \in 1..Len(input.rows) :
                    built.source[j].xy = input.rows[j].xy \div MercScale

\* C11 witness: a table built from a file in EPSG:3857 whose two points are
\* counted in the cell of the reprojected point, which is not the cell the
\* coordinates of the file would give.
C11_Witness ==
    /\ built.ret = "table"
    /\ input.crs = "EPSG:3857"
    /\ Len(built.table) = 1
    /\ built.table[1].Incident_Count = 2
    /\ built.table[1].h3_polyfill # geo_to_h3(input.rows[1].xy)

\* C12 (as claimed): for a readable file without resolvable coordinates or
\* without the IncidentDate field, process_year ends with an error message
\* and no table, never with an exception that escapes it.
C12_InvalidInputIsReported ==
    (/\ built.ret # "pending"
     /\ input.status = "ok"
     /\ (input.geometry # "points" \/ ~input.date_col))
    => built.ret = "None" /\ built.msg # ""

\* C13: a risk table has a row only for a (cell, day, label) combination that
\* occurs in at least one record: every Incident_Count is at least 1.
C13_OnlyRealisedCombinations ==
    built.ret = "table" =>
        \A i \in 1..Len(built.table) :
            /\ built.table[i].Incident_Count >= 1
            /\ \E j \in 1..Len(built.source) :
                  /\ geo_to_h3(built.source[j].xy) = built.table[i].h3_polyfill
                  /\ built.source[j].IncidentDate # NaT
                  /\ (built.source[j].IncidentDate + 3) % 7 = built.table[i].Day_Num
                  /\ built.source[j].Time_Period = built.table[i].Time_Period

\* C13 witness: two rows of different cells and labels, so that each cell
\* lacks the row of a label that is observed elsewhere in the table.
C13_Witness ==
    /\ built.ret = "table"
    /\ Len(built.table) = 2
    /\ built.table[1].h3_polyfill # built.table[2].h3_polyfill
    /\ built.table[1].Time_Period # built.table[2].Time_Period

SumOfCounts(table) == SumOver(Column(table, "Incident_Count"), 1..Len(table))

\* C14 (as claimed): the counts of a returned table add up to the number of
\* input records, records with a missing Time_Period or IncidentDate included.
\* groupby leaves out the rows that have a missing key, so the sum falls short.
C14_AllRecordsCounted ==
    built.ret = "table" => SumOfCounts(built.table) = Len(input.rows)

\* The calendar: 1970-01-01 was a Thursday.
WeekdayName(d) ==
    <<"Thursday", "Friday", "Saturday", "Sunday", "Monday", "Tuesday", "Wednesday">>[(d % 7) + 1]
WeekNames == <<"Monday", "Tuesday", "Wednesday", "Thursday", "Friday", "Saturday", "Sunday">>

\* C15: the day-name table maps the seven names one-to-one to 0..6, Monday = 0
\* through Sunday = 6, and that is the Day_Num process_year stores for an
\* incident of that weekday; a query for a day name runs with the Day_Num the
\* training rows of that weekday carry (every training window has Saturday
\* incidents).
C15_DayTableMatchesDayNum ==
    /\ DOMAIN days = Range(WeekNames)
    /\ \A i \in 1..7 : days[WeekNames[i]] = i - 1
    /\ built.ret = "table" =>
          {RowKey(built.table[i]) : i \in 1..Len(built.table)} =
              {<<geo_to_h3(built.source[j].xy), days[WeekdayName(built.source[j].IncidentDate)],
                 built.source[j].Time_Period>> :
                   j \in {x \in 1..Len(built.source) :
                             /\ built.source[x].IncidentDate # NaT
                             /\ built.source[x].Time_Period # NaN}}
    /\ rec.status = "ok" =>
          /\ rec.day_num = days[rec.day_name]
          /\ \A d \in Dates : WeekdayName(d) = rec.day_name => dayofweek(d) = rec.day_num
          /\ rec.day_name = "Saturday" =>
                \E i \in 1..Len(df_ref) : df_ref[i].Day_Num = rec.day_num

\* C15 witness: a Monday query, run with Day_Num 0, over a reference table
\* that has Monday rows.
C15_Witness ==
    /\ rec.status = "ok"
    /\ rec.day_name = "Monday"
    /\ rec.day_num = 0
    /\ \E i \in 1..Len(df_ref) : df_ref[i].Day_Num = 0

====
